---------------------------- MODULE Spec2Model ----------------------------
(***************************************************************************)
(* Bookworm library application (library/models.py, library/views.py).     *)
(*                                                                         *)
(* The store is the relational database behind Django's ORM.  The views    *)
(* open no transaction (no transaction.atomic anywhere in views.py), so    *)
(* every ORM call (get, filter().first(), create, save) is one statement   *)
(* committed on its own: a request handler is a sequence of steps, one per *)
(* ORM call, and the steps of two requests served by two workers may       *)
(* interleave.  A write may fail (any exception of the database driver);   *)
(* the handlers catch it with "except Exception" and report an error.      *)
(*                                                                         *)
(* Spec is that program: a pool of two workers and a store that may fail.  *)
(* SpecSerial is the same handlers with a pool of one worker, so one       *)
(* request at a time, on a store whose writes do not fail.                 *)
(*                                                                         *)
(* Dates are whole days, money is whole cents.  Titles, ISBNs, authors and *)
(* names are not part of the state: no step modelled here reads them, and  *)
(* a unique-ISBN violation is one of the write failures.  The views behind *)
(* user_passes_test(is_librarian) are called by staff; the two payment     *)
(* views are called by any logged-in actor.                                *)
(***************************************************************************)
EXTENDS Integers, Sequences, FiniteSets

\* ------------------------------------------------------------------ bounds
\* Requests served in one behaviour.
MaxRequests == 2

\* --------------------------------------------------------------- constants
\* timedelta(days=14)
LoanPeriod == 14
\* Decimal('1.00') per overdue day, in cents
FineRate == 100
\* DecimalField(max_digits=5, decimal_places=2)
MaxDigits == 5
\* The largest amount the field holds, in cents (999.99).
MaxAmount == (10 ^ MaxDigits) - 1

\* Two worker processes serve the requests.
Workers == {1, 2}
Emails == {"a@lib", "b@lib"}
\* The strings the book form may post as status.
StatusInputs == {"Available", "Checked Out", "Lost"}
\* request.user: is_staff and email
Actors == [staff : BOOLEAN, email : Emails]
NoActor == [staff |-> FALSE, email |-> "-"]
\* The days the clock shows in a run: the first day and the next, the day a
\* loan of the first day is due and the day after, and the last day on which
\* that loan's fine fits the amount field and the day after.
Days == {0, 1, LoanPeriod, LoanPeriod + 1,
         LoanPeriod + (MaxAmount \div FineRate),
         LoanPeriod + (MaxAmount \div FineRate) + 1}

NoId == 0
NoDate == -1

VARIABLES
    books,        \* books table: Seq of Status, the book id is the index
    members,      \* members table: Seq of Email, the member id is the index
    loans,        \* loans table: Seq of [book, member, checkoutdate, duedate, returndate]
    fines,        \* fines table: Seq of [loan, member, amount, status]
    now,          \* timezone.now().date()
    pc,           \* each worker's position in the handler it runs
    req,          \* each worker's request: its inputs, locals and response
    nreq,         \* requests accepted so far
    pool          \* the worker processes the deployment runs

vars == <<books, members, loans, fines, now, pc, req, nreq, pool>>
store == <<books, members, loans, fines>>

\* A request with nothing read yet.
NewReq(op) ==
    [op |-> op, member |-> NoId, book |-> NoId, fine |-> NoId, actor |-> NoActor,
     loan |-> NoId, codate |-> NoDate, rdate |-> NoDate, status |-> "-",
     session |-> NoId, debt |-> 0, sent |-> 0, result |-> "-"]

BookIds == 1..Len(books)
MemberIds == 1..Len(members)
LoanIds == 1..Len(loans)
FineIds == 1..Len(fines)

\* Loan.objects.filter(book=book, returndate__isnull=True)
OpenLoans(b) == {l \in LoanIds : loans[l].book = b /\ loans[l].returndate = NoDate}

\* FirstOpenLoan without the returndate__isnull filter.
FirstLoanOfBook(b) ==
    IF \A l \in LoanIds : loans[l].book # b THEN NoId
    ELSE CHOOSE l \in LoanIds :
            loans[l].book = b /\ \A k \in LoanIds : loans[k].book = b => l <= k

\* .first(): the queryset is unordered, so Django orders it by primary key.
FirstOpenLoan(b) ==
    IF OpenLoans(b) = {} THEN NoId
    ELSE CHOOSE l \in OpenLoans(b) : \A k \in OpenLoans(b) : l <= k

Idle(w) == pc[w] = "idle"
AllIdle == \A w \in Workers : Idle(w)

\* A handler that has made its last ORM call returns its response at once:
\* returning touches nothing shared, so nothing else is taken to happen
\* between the last call and the response.
Running == \A w \in Workers : pc[w] # "respond"

\* Worker w is at the ORM call named label.
At(w, label) == pc[w] = label /\ Running

\* A request goes to the first free worker of the pool, while the run's budget
\* of requests lasts.
Accept(w) ==
    /\ w \in pool
    /\ Idle(w)
    /\ Running
    /\ \A v \in pool : v < w => ~Idle(v)
    /\ nreq < MaxRequests

\* The handler returns its response (the message it flashed).
Respond(w, r, result) ==
    /\ pc' = [pc EXCEPT ![w] = "respond"]
    /\ req' = [req EXCEPT ![w] = [r EXCEPT !.result = result]]

Goto(w, r, label) ==
    /\ pc' = [pc EXCEPT ![w] = label]
    /\ req' = [req EXCEPT ![w] = r]

\* The databases a run starts from.  Each is what the handlers below leave
\* behind, starting from the first: a library with one book and one member;
\* the same after the member checked the book out on day 0; the same after
\* the book came back one day late.
FreshLibrary ==
    [books |-> <<"Available">>, members |-> <<"a@lib">>, loans |-> <<>>,
     fines |-> <<>>, now |-> 0]
BookOnLoan ==
    [books |-> <<"Checked Out">>, members |-> <<"a@lib">>,
     loans |-> <<[book |-> 1, member |-> 1, checkoutdate |-> 0,
                  duedate |-> LoanPeriod, returndate |-> NoDate]>>,
     fines |-> <<>>, now |-> 0]
FineOutstanding ==
    [books |-> <<"Available">>, members |-> <<"a@lib">>,
     loans |-> <<[book |-> 1, member |-> 1, checkoutdate |-> 0,
                  duedate |-> LoanPeriod, returndate |-> LoanPeriod + 1]>>,
     fines |-> <<[loan |-> 1, member |-> 1, amount |-> FineRate,
                  status |-> "Unpaid"]>>,
     now |-> LoanPeriod + 1]
Databases == {FreshLibrary, BookOnLoan, FineOutstanding}

Started ==
    /\ \E d \in Databases :
          /\ books = d.books
          /\ members = d.members
          /\ loans = d.loans
          /\ fines = d.fines
          /\ now = d.now
    /\ pc = [w \in Workers |-> "idle"]
    /\ req = [w \in Workers |-> NewReq("-")]
    /\ nreq = 0

\* The deployment runs every worker.
Init == Started /\ pool = Workers

\* The deployment runs one worker: one request at a time.
InitSerial == Started /\ pool = {1}

\* The response is sent and the request's locals are gone: the worker is free.
SendResponse(w) ==
    /\ pc[w] = "respond"
    /\ pc' = [pc EXCEPT ![w] = "idle"]
    /\ req' = [req EXCEPT ![w] = NewReq("-")]
    /\ UNCHANGED <<store, now, nreq, pool>>

\* ------------------------------------------------------------------ clock
Tick ==
    /\ Running
    /\ \E d \in Days : d > now /\ now' = d
    /\ UNCHANGED <<store, pc, req, nreq, pool>>

\* ------------------------------------------------- register_member_view
RegisterBegin(w, email) ==
    /\ Accept(w)
    /\ nreq' = nreq + 1
    /\ Goto(w, [NewReq("register") EXCEPT !.status = email], "rg_create")
    /\ UNCHANGED <<store, now, pool>>

\* Member.objects.create: the email column is unique.
RegisterCreate(w) ==
    /\ At(w, "rg_create")
    /\ IF \E m \in MemberIds : members[m] = req[w].status
       THEN /\ Respond(w, req[w], "Error")
            /\ UNCHANGED members
       ELSE /\ members' = Append(members, req[w].status)
            /\ Respond(w, [req[w] EXCEPT !.member = Len(members) + 1], "MemberRegistered")
    /\ UNCHANGED <<books, loans, fines, now, nreq, pool>>

\* ---------------------------------------------------------- add_book_view
AddBookBegin(w) ==
    /\ Accept(w)
    /\ nreq' = nreq + 1
    /\ Goto(w, NewReq("add_book"), "ab_create")
    /\ UNCHANGED <<store, now, pool>>

\* Book.objects.create(..., status='Available')
AddBookCreate(w) ==
    /\ At(w, "ab_create")
    /\ books' = Append(books, "Available")
    /\ Respond(w, [req[w] EXCEPT !.book = Len(books) + 1], "BookAdded")
    /\ UNCHANGED <<members, loans, fines, now, nreq, pool>>

\* ------------------------------------------------- book_detail_view (POST)
\* Book.objects.select_related('author').get(bookid=book_id)
BookDetailGet(w, b, status) ==
    /\ Accept(w)
    /\ nreq' = nreq + 1
    /\ LET r == [NewReq("book_detail") EXCEPT !.book = b, !.status = status]
       IN  IF b \in BookIds
           THEN Goto(w, r, "bd_save")
           ELSE Respond(w, r, "BookNotFound")
    /\ UNCHANGED <<store, now, pool>>

\* book.status = status; book.save()
BookDetailSave(w) ==
    /\ At(w, "bd_save")
    /\ books' = [books EXCEPT ![req[w].book] = req[w].status]
    /\ Respond(w, req[w], "BookUpdated")
    /\ UNCHANGED <<members, loans, fines, now, nreq, pool>>

\* ---------------------------------------------------------- checkout_view
\* Member.objects.get(memberid=member_id)
CheckoutGetMember(w, m, b) ==
    /\ Accept(w)
    /\ nreq' = nreq + 1
    /\ LET r == [NewReq("checkout") EXCEPT !.member = m, !.book = b]
       IN  IF m \in MemberIds
           THEN Goto(w, r, "co_get_book")
           ELSE Respond(w, r, "MemberNotFound")
    /\ UNCHANGED <<store, now, pool>>

\* BookAvailable testing for 'Checked Out' instead.
BookNotCheckedOut(status) == status # "Checked Out"

\* if book.status != 'Available'
BookAvailable(status) == status = "Available"

\* Book.objects.get(bookid=book_id), the status test, and the first
\* timezone.now().date() of the Loan's arguments.
CheckoutGetBook(w) ==
    /\ At(w, "co_get_book")
    /\ LET r == req[w]
       IN  IF r.book \notin BookIds
           THEN Respond(w, r, "BookNotFound")
           ELSE IF ~BookAvailable(books[r.book])
           THEN Respond(w, r, "BookNotAvailable")
           ELSE Goto(w, [r EXCEPT !.codate = now], "co_create")
    /\ UNCHANGED <<store, now, nreq, pool>>

\* Loan.objects.create(book, member, checkoutdate, duedate = now + 14 days):
\* the due date reads the clock again.
CheckoutCreateLoan(w) ==
    /\ At(w, "co_create")
    /\ loans' = Append(loans, [book |-> req[w].book, member |-> req[w].member,
                               checkoutdate |-> req[w].codate,
                               duedate |-> now + LoanPeriod,
                               returndate |-> NoDate])
    /\ Goto(w, [req[w] EXCEPT !.loan = Len(loans) + 1], "co_save_book")
    /\ UNCHANGED <<books, members, fines, now, nreq, pool>>

\* book.status = 'Checked Out'; book.save()
CheckoutSaveBook(w) ==
    /\ At(w, "co_save_book")
    /\ books' = [books EXCEPT ![req[w].book] = "Checked Out"]
    /\ Respond(w, req[w], "CheckedOut")
    /\ UNCHANGED <<members, loans, fines, now, nreq, pool>>

\* ------------------------------------------------------------ return_view
\* Book.objects.get(bookid=book_id)
ReturnGetBook(w, b) ==
    /\ Accept(w)
    /\ nreq' = nreq + 1
    /\ LET r == [NewReq("return") EXCEPT !.book = b]
       IN  IF b \in BookIds
           THEN Goto(w, r, "rt_find_loan")
           ELSE Respond(w, r, "BookNotFound")
    /\ UNCHANGED <<store, now, pool>>

\* loan = Loan.objects.filter(book=book, returndate__isnull=True).first()
ReturnFindLoan(w) ==
    /\ At(w, "rt_find_loan")
    /\ LET l == FirstOpenLoan(req[w].book)
       IN  IF l = NoId
           THEN Respond(w, req[w], "NoActiveLoan")
           ELSE Goto(w, [req[w] EXCEPT !.loan = l], "rt_save_loan")
    /\ UNCHANGED <<store, now, nreq, pool>>

\* The loans table after loan.save() of loan l with return date d.
SaveReturnDate(l, d) == [loans EXCEPT ![l].returndate = d]

\* return_date = timezone.now().date(); loan.returndate = return_date; loan.save()
ReturnSaveLoan(w) ==
    /\ At(w, "rt_save_loan")
    /\ loans' = SaveReturnDate(req[w].loan, now)
    /\ Goto(w, [req[w] EXCEPT !.rdate = now], "rt_save_book")
    /\ UNCHANGED <<books, members, fines, now, nreq, pool>>

\* The lateness test taken as "not before the due date".
OverdueOnDueDate(rdate, duedate) == rdate >= duedate

\* if return_date > loan.duedate
Overdue(rdate, duedate) == rdate > duedate

\* book.status = 'Available'; book.save(); then the lateness test
ReturnSaveBook(w) ==
    /\ At(w, "rt_save_book")
    /\ books' = [books EXCEPT ![req[w].book] = "Available"]
    /\ IF Overdue(req[w].rdate, loans[req[w].loan].duedate)
       THEN Goto(w, req[w], "rt_create_fine")
       ELSE Respond(w, req[w], "Returned")
    /\ UNCHANGED <<members, loans, fines, now, nreq, pool>>

\* fine_amount = Decimal(overdue_days) * Decimal('1.00'), in cents
FineAmount(rdate, duedate) == (rdate - duedate) * FineRate

\* The Fine row of the return in req r with the amount given.
NewFine(r, amount) ==
    [loan |-> r.loan, member |-> loans[r.loan].member, amount |-> amount,
     status |-> "Unpaid"]

\* Fine.objects.create(loan, member=loan.member, amount, status='Unpaid'),
\* the amount within the column's five digits.
ReturnCreateFine(w) ==
    /\ At(w, "rt_create_fine")
    /\ LET amount == FineAmount(req[w].rdate, loans[req[w].loan].duedate)
       IN  /\ amount <= MaxAmount
           /\ fines' = Append(fines, NewFine(req[w], amount))
    /\ Respond(w, [req[w] EXCEPT !.fine = Len(fines) + 1], "ReturnedLate")
    /\ UNCHANGED <<books, members, loans, now, nreq, pool>>

\* The amount does not fit max_digits=5.  What the INSERT does is the build's:
\* Django's format_number (before 5.0) and a strict database raise;
ReturnCreateFineRejected(w) ==
    /\ At(w, "rt_create_fine")
    /\ FineAmount(req[w].rdate, loans[req[w].loan].duedate) > MaxAmount
    /\ Respond(w, req[w], "Error")
    /\ UNCHANGED <<store, now, nreq, pool>>

\* a database that is not strict stores the column's largest value;
ReturnCreateFineClamped(w) ==
    /\ At(w, "rt_create_fine")
    /\ FineAmount(req[w].rdate, loans[req[w].loan].duedate) > MaxAmount
    /\ fines' = Append(fines, NewFine(req[w], MaxAmount))
    /\ Respond(w, [req[w] EXCEPT !.fine = Len(fines) + 1], "ReturnedLate")
    /\ UNCHANGED <<books, members, loans, now, nreq, pool>>

\* a database that does not enforce the column's precision stores it as it is.
ReturnCreateFineUnchecked(w) ==
    /\ At(w, "rt_create_fine")
    /\ LET amount == FineAmount(req[w].rdate, loans[req[w].loan].duedate)
       IN  /\ amount > MaxAmount
           /\ fines' = Append(fines, NewFine(req[w], amount))
    /\ Respond(w, [req[w] EXCEPT !.fine = Len(fines) + 1], "ReturnedLate")
    /\ UNCHANGED <<books, members, loans, now, nreq, pool>>

\* ------------------------------------------------------ notify_debtor_view
\* Member.objects.get(memberid=member_id)
NotifyGetMember(w, m) ==
    /\ Accept(w)
    /\ nreq' = nreq + 1
    /\ LET r == [NewReq("notify") EXCEPT !.member = m]
       IN  IF m \in MemberIds
           THEN Goto(w, r, "nt_read_fines")
           ELSE Respond(w, r, "MemberNotFound")
    /\ UNCHANGED <<store, now, pool>>

\* The amounts of member m's fines among the first n, paid or not.
RECURSIVE DebtPaidToo(_, _)
DebtPaidToo(m, n) ==
    IF n = 0 THEN 0
    ELSE DebtPaidToo(m, n - 1) + (IF fines[n].member = m THEN fines[n].amount ELSE 0)

\* sum(fine.amount for fine in Fine.objects.filter(member=member,
\* status='Unpaid')), over the first n fines
RECURSIVE UnpaidDebt(_, _)
UnpaidDebt(m, n) ==
    IF n = 0 THEN 0
    ELSE UnpaidDebt(m, n - 1)
         + (IF fines[n].member = m /\ fines[n].status = "Unpaid"
            THEN fines[n].amount ELSE 0)

\* unpaid_fines is evaluated by the sum; if total_debt > 0
NotifyReadFines(w) ==
    /\ At(w, "nt_read_fines")
    /\ LET r == [req[w] EXCEPT !.debt = UnpaidDebt(req[w].member, Len(fines))]
       IN  IF r.debt > 0
           THEN Goto(w, r, "nt_send")
           ELSE Respond(w, r, "NoOutstandingFines")
    /\ UNCHANGED <<store, now, nreq, pool>>

\* smtplib.SMTP(...), starttls, login, send_message, quit: the message is
\* handed to the mail server once; req[w].sent counts the submissions.
NotifySend(w) ==
    /\ At(w, "nt_send")
    /\ Respond(w, [req[w] EXCEPT !.sent = @ + 1], "ReminderSent")
    /\ UNCHANGED <<store, now, nreq, pool>>

\* One of the smtplib calls raises: except Exception reports it, nothing is
\* sent again.
NotifySendFails(w) ==
    /\ At(w, "nt_send")
    /\ Respond(w, [req[w] EXCEPT !.sent = @ + 1], "Error")
    /\ UNCHANGED <<store, now, nreq, pool>>

\* ------------------------------------------------ create_checkout_session
\* Authorized with the security check left out, as payment_success has none.
AuthorizedAnyUser(actor, f) == TRUE

\* if not request.user.is_staff: if fine.member.email != request.user.email
Authorized(actor, f) == actor.staff \/ members[fines[f].member] = actor.email

\* fine = Fine.objects.get(fineid=fine_id) and the security check
PayFineGet(w, f, actor) ==
    /\ Accept(w)
    /\ nreq' = nreq + 1
    /\ LET r == [NewReq("pay_fine") EXCEPT !.fine = f, !.actor = actor]
       IN  IF f \notin FineIds
           THEN Respond(w, r, "FineNotFound")
           ELSE IF ~Authorized(actor, f)
           THEN Respond(w, r, "Unauthorized")
           ELSE Goto(w, r, "pf_session")
    /\ UNCHANGED <<store, now, pool>>

\* unit_amount = int(fine.amount * 100): the amount the gateway is asked for
UnitAmount(f) == fines[f].amount

\* A session creation that marks the fine paid before the payer has paid.
PayFineSessionMarksPaid(w) ==
    /\ At(w, "pf_session")
    /\ fines' = [fines EXCEPT ![req[w].fine].status = "Paid"]
    /\ Respond(w, [req[w] EXCEPT !.session = fines[req[w].fine].amount], "Redirected")
    /\ UNCHANGED <<books, members, loans, now, nreq, pool>>

\* stripe.checkout.Session.create(...) returns a session: redirect to its url.
\* req[w].session is the unit_amount the gateway was called with.
PayFineSession(w) ==
    /\ At(w, "pf_session")
    /\ Respond(w, [req[w] EXCEPT !.session = UnitAmount(req[w].fine)], "Redirected")
    /\ UNCHANGED <<store, now, nreq, pool>>

\* stripe.checkout.Session.create(...) raises
PayFineSessionFails(w) ==
    /\ At(w, "pf_session")
    /\ Respond(w, [req[w] EXCEPT !.session = UnitAmount(req[w].fine)], "GatewayError")
    /\ UNCHANGED <<store, now, nreq, pool>>

\* --------------------------------------------------------- payment_success
\* fine = Fine.objects.get(fineid=fine_id); req[w].status is the status read
PaymentSuccessGet(w, f, actor) ==
    /\ Accept(w)
    /\ nreq' = nreq + 1
    /\ LET r == [NewReq("payment_success") EXCEPT !.fine = f, !.actor = actor]
       IN  IF f \in FineIds
           THEN Goto(w, [r EXCEPT !.status = fines[f].status], "ps_save")
           ELSE Respond(w, r, "FineNotFound")
    /\ UNCHANGED <<store, now, pool>>

\* MarkPaid without the save().
MarkPaidNotSaved(f) == fines

\* MarkPaid settling the amount as well.
MarkPaidAmountCleared(f) == [fines EXCEPT ![f].status = "Paid", ![f].amount = 0]

\* The fines table after fine.status = 'Paid'; fine.save()
MarkPaid(f) == [fines EXCEPT ![f].status = "Paid"]

PaymentSuccessSave(w) ==
    /\ At(w, "ps_save")
    /\ fines' = MarkPaid(req[w].fine)
    /\ Respond(w, req[w], "PaymentSuccessful")
    /\ UNCHANGED <<books, members, loans, now, nreq, pool>>

\* ----------------------------------------------------------- store faults
\* The positions whose next ORM call writes.
WritePcs == {"rg_create", "ab_create", "bd_save", "co_create", "co_save_book",
             "rt_save_loan", "rt_save_book", "rt_create_fine", "ps_save"}

\* The write raises.  Every handler but payment_success catches Exception and
\* reports it; payment_success catches Fine.DoesNotExist alone, so the
\* exception leaves the view and the framework answers with a server error.
StoreFault(w) ==
    /\ pc[w] \in WritePcs
    /\ Running
    /\ Respond(w, req[w], IF pc[w] = "ps_save" THEN "ServerError" ELSE "Error")
    /\ UNCHANGED <<store, now, nreq, pool>>

\* ------------------------------------------------------- the specifications
\* A worker takes a request and makes its handler's first ORM call.
Begin(w) ==
    \/ \E e \in Emails : RegisterBegin(w, e)
    \/ AddBookBegin(w)
    \/ \E b \in 1..(Len(books) + 1), s \in StatusInputs : BookDetailGet(w, b, s)
    \/ \E m \in 1..(Len(members) + 1), b \in 1..(Len(books) + 1) :
          CheckoutGetMember(w, m, b)
    \/ \E b \in 1..(Len(books) + 1) : ReturnGetBook(w, b)
    \/ \E m \in 1..(Len(members) + 1) : NotifyGetMember(w, m)
    \/ \E f \in 1..(Len(fines) + 1), a \in Actors : PayFineGet(w, f, a)
    \/ \E f \in 1..(Len(fines) + 1), a \in Actors : PaymentSuccessGet(w, f, a)

\* A handler's next ORM call (or gateway call) succeeds or fails as the code
\* and the data decide.
Continue(w) ==
    \/ RegisterCreate(w)
    \/ AddBookCreate(w)
    \/ BookDetailSave(w)
    \/ CheckoutGetBook(w)
    \/ CheckoutCreateLoan(w)
    \/ CheckoutSaveBook(w)
    \/ ReturnFindLoan(w)
    \/ ReturnSaveLoan(w)
    \/ ReturnSaveBook(w)
    \/ ReturnCreateFine(w)
    \/ ReturnCreateFineRejected(w)
    \/ ReturnCreateFineClamped(w)
    \/ ReturnCreateFineUnchecked(w)
    \/ NotifyReadFines(w)
    \/ NotifySend(w)
    \/ NotifySendFails(w)
    \/ PayFineSession(w)
    \/ PayFineSessionFails(w)
    \/ PaymentSuccessSave(w)

\* The deployed program: workers serve requests side by side, each ORM call
\* its own transaction, and a write may fail.
Next ==
    \/ Tick
    \/ \E w \in Workers : Begin(w)
    \/ \E w \in Workers : Continue(w)
    \/ \E w \in Workers : SendResponse(w)
    \/ \E w \in Workers : StoreFault(w)

Spec == Init /\ [][Next]_vars

\* One request at a time (a pool of one worker) on a store that does not fail.
NextSerial ==
    \/ Tick
    \/ \E w \in Workers : Begin(w)
    \/ \E w \in Workers : Continue(w)
    \/ \E w \in Workers : SendResponse(w)

SpecSerial == InitSerial /\ [][NextSerial]_vars

TypeOK ==
    /\ books \in Seq(StatusInputs)
    /\ \A m \in MemberIds : members[m] \in Emails
    /\ \A l \in LoanIds : loans[l].book \in BookIds /\ loans[l].member \in MemberIds
    /\ \A f \in FineIds : fines[f].loan \in LoanIds /\ fines[f].status \in {"Unpaid", "Paid"}
    /\ pc \in [Workers -> WritePcs \cup {"idle", "respond", "co_get_book", "rt_find_loan", "pf_session",
                                 "nt_read_fines", "nt_send"}]
    /\ nreq \in 0..MaxRequests
    /\ now \in Days
    /\ pool \subseteq Workers

\* ==================================================================== claims
\* The step is one of worker w's.
StepOf(w) == pc'[w] # pc[w]
Responding(w, op) == pc[w] = "respond" /\ req[w].op = op
IsOpen(l) == loans[l].returndate = NoDate
OpenLoansOf(b) == {l \in LoanIds : loans[l].book = b /\ IsOpen(l)}

\* C1: between requests, a book is 'Checked Out' iff it has an open loan, and
\* no book has two open loans.
C1_StatusIffOpenLoan ==
    AllIdle =>
        \A b \in BookIds :
            /\ (books[b] = "Checked Out") <=> (OpenLoansOf(b) # {})
            /\ Cardinality(OpenLoansOf(b)) <= 1

\* C2: two checkout requests served side by side for the same book never both
\* create a loan.
C2_OneCheckoutWins ==
    \A v, w \in Workers :
        (/\ v # w
         /\ req[v].op = "checkout" /\ req[w].op = "checkout"
         /\ req[v].book = req[w].book)
        => ~(req[v].loan # NoId /\ req[w].loan # NoId)

\* C3: a checkout that reads an existing book whose status is not 'Available'
\* answers "book is not available", has created no loan and changes no table.
C3_UnavailableRefused ==
    [][\A w \in Workers :
        (/\ pc[w] = "co_get_book" /\ StepOf(w)
         /\ req[w].member \in MemberIds
         /\ req[w].book \in BookIds
         /\ books[req[w].book] # "Available")
        => /\ pc'[w] = "respond"
           /\ req'[w].result = "BookNotAvailable"
           /\ req'[w].loan = NoId
           /\ UNCHANGED store]_vars

C3_Witness ==
    \E w \in Workers :
        /\ Responding(w, "checkout")
        /\ req[w].result = "BookNotAvailable"
        /\ books[req[w].book] = "Checked Out"
        /\ OpenLoansOf(req[w].book) # {}

\* C4: when a checkout answers, the loan it created (if any) goes with the
\* book's status 'Checked Out'.
C4_CheckoutAllOrNothing ==
    \A w \in Workers :
        (Responding(w, "checkout") /\ req[w].loan # NoId)
        => books[req[w].book] = "Checked Out"

\* C5: one request at a time, a return that finds an open loan writes today's
\* date into that loan and no other, then sets the book 'Available', and no
\* other step of it touches loans or books; a return that finds none answers
\* "no active loan" and changes no table.
C5_ReturnClosesOneLoan ==
    [][\A w \in Workers :
        (StepOf(w) /\ req[w].op = "return") =>
            /\ pc[w] = "rt_find_loan" =>
                  /\ UNCHANGED store
                  /\ OpenLoansOf(req[w].book) = {} =>
                        pc'[w] = "respond" /\ req'[w].result = "NoActiveLoan"
                  /\ OpenLoansOf(req[w].book) # {} =>
                        pc'[w] = "rt_save_loan" /\ req'[w].loan \in OpenLoansOf(req[w].book)
            /\ pc[w] = "rt_save_loan" =>
                  /\ req[w].loan \in OpenLoansOf(req[w].book)
                  /\ loans' = [loans EXCEPT ![req[w].loan].returndate = now]
                  /\ pc'[w] = "rt_save_book"
                  /\ UNCHANGED <<books, members, fines>>
            /\ pc[w] = "rt_save_book" =>
                  /\ books' = [books EXCEPT ![req[w].book] = "Available"]
                  /\ UNCHANGED <<loans, members, fines>>
            /\ pc[w] \in {"rt_create_fine", "respond"} =>
                  UNCHANGED <<books, loans, members>>]_vars

C5_Witness ==
    \E w \in Workers :
        /\ Responding(w, "return")
        /\ req[w].result = "ReturnedLate"
        /\ loans[req[w].loan].returndate = now
        /\ books[req[w].book] = "Available"
        /\ \E l \in LoanIds : l # req[w].loan

FinesOf(l) == {f \in FineIds : fines[f].loan = l}

\* C6: one request at a time, a return that has written the return date d days
\* after the due date answers with a fine for the loan iff d > 0, and then with
\* exactly one, of d x 1.00, 'Unpaid', on the loan's member.
C6_FineLaw ==
    \A w \in Workers :
        (Responding(w, "return") /\ req[w].rdate # NoDate) =>
            LET l == req[w].loan
                d == loans[l].returndate - loans[l].duedate
            IN  /\ (d > 0) <=> (FinesOf(l) # {})
                /\ Cardinality(FinesOf(l)) <= 1
                /\ \A f \in FinesOf(l) :
                      /\ fines[f].amount = d * FineRate
                      /\ fines[f].status = "Unpaid"
                      /\ fines[f].member = loans[l].member

\* C7: a return that answers with an error has not written the return date.
C7_ReturnAllOrNothing ==
    \A w \in Workers :
        (Responding(w, "return") /\ req[w].result = "Error") => req[w].rdate = NoDate

\* C8: settlement initiate reaches the gateway call, and has made it, only for
\* an existing fine and an actor who is staff or has the email of the fine's
\* member; for an unknown fine it answers "not found", for any other actor
\* "not authorized", and no gateway call was made.
C8_InitiateAuthorized ==
    \A w \in Workers :
        req[w].op = "pay_fine" =>
            LET f == req[w].fine
                ok == /\ f \in FineIds
                      /\ \/ req[w].actor.staff
                         \/ members[fines[f].member] = req[w].actor.email
            IN  /\ (pc[w] = "pf_session" \/ req[w].session # NoId) => ok
                /\ (pc[w] = "respond" /\ ~ok) =>
                      /\ req[w].session = NoId
                      /\ req[w].result = IF f \in FineIds THEN "Unauthorized"
                                         ELSE "FineNotFound"

C8_Witness ==
    \E w \in Workers :
        /\ Responding(w, "pay_fine")
        /\ req[w].fine \in FineIds
        /\ ~req[w].actor.staff
        /\ members[fines[req[w].fine].member] # req[w].actor.email
        /\ req[w].result = "Unauthorized"
        /\ req[w].session = NoId

\* C9: a payment confirm for an existing fine whose save did not fail answers
\* success with the fine 'Paid', whoever the actor and whatever came before.
C9_ConfirmUnconditional ==
    \A w \in Workers :
        (/\ Responding(w, "payment_success")
         /\ req[w].fine \in FineIds
         /\ req[w].result # "ServerError")
        => /\ req[w].result = "PaymentSuccessful"
           /\ fines[req[w].fine].status = "Paid"

\* The run's first request is a confirm by an actor who is neither staff nor
\* the fine's member: the fine is 'Paid' and no initiate was ever made.
C9_Witness ==
    \E w \in Workers :
        /\ nreq = 1
        /\ Responding(w, "payment_success")
        /\ req[w].result = "PaymentSuccessful"
        /\ ~req[w].actor.staff
        /\ members[fines[req[w].fine].member] # req[w].actor.email
        /\ fines[req[w].fine].status = "Paid"

\* C10: the save of a payment confirm changes the fine's status to 'Paid' and
\* nothing else, so on a fine already 'Paid' it changes nothing, and it answers
\* success; a confirm for an unknown fine answers "not found" and changes no
\* table.
C10_ConfirmIdempotent ==
    [][\A w \in Workers :
        /\ (/\ pc[w] = "ps_save" /\ StepOf(w)
            /\ req'[w].result # "ServerError")
           => /\ req'[w].result = "PaymentSuccessful"
              /\ fines' = [fines EXCEPT ![req[w].fine].status = "Paid"]
              /\ fines[req[w].fine].status = "Paid" => fines' = fines
              /\ UNCHANGED <<books, members, loans>>
        /\ (/\ pc[w] = "idle" /\ StepOf(w)
            /\ req'[w].op = "payment_success"
            /\ req'[w].fine \notin FineIds)
           => /\ pc'[w] = "respond"
              /\ req'[w].result = "FineNotFound"
              /\ UNCHANGED store]_vars

\* A confirm has answered success for a fine that was 'Paid' when it read it.
C10_Witness ==
    \E w \in Workers :
        /\ Responding(w, "payment_success")
        /\ req[w].result = "PaymentSuccessful"
        /\ req[w].status = "Paid"
        /\ fines[req[w].fine].status = "Paid"

\* The unpaid fines of member m.
UnpaidOf(m) == {f \in FineIds : fines[f].member = m /\ fines[f].status = "Unpaid"}

\* C11: a debt reminder for an existing member reads a total that is positive
\* iff the member has an 'Unpaid' fine; it hands a message to the mail server
\* iff that total is positive, once, and answers "sent" or the error; with a
\* zero total it answers "no outstanding fines"; no step of it changes a table.
C11_ReminderIffDebt ==
    [][\A w \in Workers :
        (StepOf(w) /\ req'[w].op = "notify" /\ (req'[w].member \in MemberIds)) =>
            /\ UNCHANGED store
            /\ pc[w] = "nt_read_fines" =>
                  /\ (req'[w].debt > 0) <=> (UnpaidOf(req[w].member) # {})
                  /\ req'[w].sent = 0
                  /\ pc'[w] = (IF req'[w].debt > 0 THEN "nt_send" ELSE "respond")
            /\ pc'[w] = "respond" =>
                  /\ req'[w].sent = (IF req'[w].debt > 0 THEN 1 ELSE 0)
                  /\ req'[w].result \in (IF req'[w].debt > 0
                                        THEN {"ReminderSent", "Error"}
                                        ELSE {"NoOutstandingFines"})]_vars

\* Member 2 is reminded and owes nothing, so nothing is sent, while another
\* member has an unpaid fine.
C11_Witness ==
    \E w \in Workers :
        /\ Responding(w, "notify")
        /\ req[w].member \in MemberIds
        /\ req[w].result = "NoOutstandingFines"
        /\ req[w].sent = 0
        /\ \E f \in FineIds : fines[f].status = "Unpaid" /\ fines[f].member # req[w].member

\* C12: every loan is due LoanPeriod days after its checkout date, and its
\* return date, once written, is not before its checkout date.
C12_LoanDates ==
    \A l \in LoanIds :
        /\ loans[l].duedate = loans[l].checkoutdate + LoanPeriod
        /\ loans[l].returndate # NoDate => loans[l].returndate >= loans[l].checkoutdate

\* The return-date half of C12 alone.
ReturnNotBeforeCheckout ==
    \A l \in LoanIds :
        loans[l].returndate # NoDate => loans[l].returndate >= loans[l].checkoutdate

\* C13: the status of an existing book changes only in the checkout step that
\* saves the book (from 'Available' to 'Checked Out') or in the return step
\* that saves it (to 'Available'), and is always one of those two values.
C13_StatusOnlyByLoanSteps ==
    [][\A b \in BookIds :
        /\ books'[b] \in {"Available", "Checked Out"}
        /\ books'[b] # books[b] =>
              \E w \in Workers :
                  /\ req[w].book = b
                  /\ \/ /\ pc[w] = "co_save_book"
                        /\ books[b] = "Available"
                        /\ books'[b] = "Checked Out"
                     \/ /\ pc[w] = "rt_save_book"
                        /\ books'[b] = "Available"]_vars

\* C14: no step deletes a loan or a fine; a loan keeps its book, member,
\* checkout date and due date, and its return date once written; a fine keeps
\* its amount, loan and member, and once 'Paid' stays 'Paid'.
C14_RecordsMonotone ==
    [][/\ Len(loans') >= Len(loans)
       /\ Len(fines') >= Len(fines)
       /\ \A l \in LoanIds :
             /\ loans'[l].book = loans[l].book
             /\ loans'[l].member = loans[l].member
             /\ loans'[l].checkoutdate = loans[l].checkoutdate
             /\ loans'[l].duedate = loans[l].duedate
             /\ loans[l].returndate # NoDate => loans'[l].returndate = loans[l].returndate
       /\ \A f \in FineIds :
             /\ fines'[f].amount = fines[f].amount
             /\ fines'[f].loan = fines[f].loan
             /\ fines'[f].member = fines[f].member
             /\ fines'[f].status \in {"Unpaid", "Paid"}
             /\ fines[f].status = "Paid" => fines'[f].status = "Paid"]_vars

\* Every fine is of a loan whose return date is written and after its due date.
FinesOfLateReturns ==
    \A f \in FineIds :
        /\ fines[f].loan \in LoanIds
        /\ loans[fines[f].loan].returndate # NoDate
        /\ loans[fines[f].loan].returndate > loans[fines[f].loan].duedate

\* C15: a fine is created only by the last step of a return, which is reached
\* only from the step that saves the book as 'Available', itself after the
\* return date was saved; so in every state every fine is of a loan whose
\* return date is written and later than its due date, never of an open loan.
C15_FineAfterReturnWritten ==
    /\ FinesOfLateReturns
    /\ [][/\ FinesOfLateReturns'
          /\ \A w \in Workers :
                /\ (StepOf(w) /\ Len(fines') > Len(fines)) =>
                      /\ pc[w] = "rt_create_fine"
                      /\ fines'[Len(fines')].loan = req[w].loan
                /\ (StepOf(w) /\ pc'[w] = "rt_create_fine") =>
                      /\ pc[w] = "rt_save_book"
                      /\ books'[req[w].book] = "Available"
                      /\ loans'[req[w].loan].returndate # NoDate
                /\ (StepOf(w) /\ pc'[w] = "rt_save_book") =>
                      /\ pc[w] = "rt_save_loan"
                      /\ loans'[req[w].loan].returndate # NoDate]_vars

\* A late return has answered: the loan is closed, the book is available and
\* the fine of the loan exists.
C15_Witness ==
    \E w \in Workers :
        /\ Responding(w, "return")
        /\ req[w].result = "ReturnedLate"
        /\ req[w].fine \in FineIds
        /\ fines[req[w].fine].loan = req[w].loan
        /\ loans[req[w].loan].returndate > loans[req[w].loan].duedate

\* C16: no loan has more than one fine.
C16_OneFinePerLoan ==
    \A l \in LoanIds : Cardinality(FinesOf(l)) <= 1

\* C17: no step of settlement initiate changes a table, whatever its answer
\* (redirected to the gateway, not authorized, fine not found, gateway error),
\* and the status of an existing fine changes only in the save of payment
\* confirm for that fine.
C17_InitiateWritesNothing ==
    [][/\ \A w \in Workers :
             (StepOf(w) /\ "pay_fine" \in {req[w].op, req'[w].op}) => UNCHANGED store
       /\ \A f \in FineIds :
             fines'[f].status # fines[f].status =>
                 \E w \in Workers :
                     /\ req[w].op = "payment_success"
                     /\ pc[w] = "ps_save"
                     /\ req[w].fine = f
                     /\ fines'[f].status = "Paid"]_vars

\* The payer was sent to the gateway and the fine is still unpaid.
C17_Witness ==
    \E w \in Workers :
        /\ Responding(w, "pay_fine")
        /\ req[w].result = "Redirected"
        /\ req[w].session > 0
        /\ fines[req[w].fine].status = "Unpaid"

=============================================================================
